---- MODULE Spec2Model ----
(***************************************************************************)
(* The IAM samples of samples/snippets/iam.py: six command-line operations *)
(* (get policy, set policy, check permissions, each for a topic and for a  *)
(* subscription) run by clients against the Pub/Sub IAM service.  A client *)
(* is one invocation of one of the six functions at a time; the service    *)
(* serves one request at a time, so an invocation is atomic only between    *)
(* two of its requests.                                                     *)
(***************************************************************************)
EXTENDS Integers, Sequences, FiniteSets, Bags, TLC

\* Number of clients that may run an invocation at the same time.
NumClients == 2

\* Total number of invocations started in one behaviour.
MaxInvocations == 2

Clients == 1..NumClients

Projects == {"proj-1"}

ResourceIds == {"topic-a", "sub-a"}

Kinds == {"topic", "subscription"}

Ops == {"get", "set", "check"}

OK == "OK"

Binding(role, members) == [role |-> role, members |-> members]

ViewerBinding == Binding("roles/pubsub.viewer", <<"domain:google.com">>)

PublisherBinding == Binding("roles/pubsub.publisher", <<"group:cloud-logs@google.com">>)

EditorBinding == Binding("roles/editor", <<"group:cloud-logs@google.com">>)

\* A topic_path that builds the subscription template instead.
topic_path_subscription_template(project_id, topic_id) ==
    "projects/" \o project_id \o "/subscriptions/" \o topic_id

\* client.topic_path(project_id, topic_id)
topic_path(project_id, topic_id) == "projects/" \o project_id \o "/topics/" \o topic_id

\* client.subscription_path(project_id, subscription_id)
subscription_path(project_id, subscription_id) ==
    "projects/" \o project_id \o "/subscriptions/" \o subscription_id

\* The resource identifier an operation of the given kind builds.
resource_path(k, project_id, id) ==
    IF k = "topic" THEN topic_path(project_id, id) ELSE subscription_path(project_id, id)

\* The resources the service knows: one topic and one subscription.
ExistingResources == {"projects/proj-1/topics/topic-a", "projects/proj-1/subscriptions/sub-a"}

\* Policies a resource may hold before the first invocation.
InitialPolicies == {<<>>, <<ViewerBinding>>}

\* The stores a behaviour may start from.
InitialStores == {[r \in ExistingResources |-> b] : b \in InitialPolicies}

\* Permissions the calling principal may hold (fixed during a behaviour).
HeldChoices ==
    { {},
      {"pubsub.topics.publish"},
      {"pubsub.topics.publish", "pubsub.topics.update", "pubsub.subscriptions.consume"} }

VARIABLES
    store,      \* service: resource path -> stored policy (sequence of bindings)
    held,       \* service: permissions the calling principal holds
    pc,         \* client: position of its invocation
    op,         \* client: which operation it runs ("get", "set", "check")
    kind,       \* client: resource kind of the operation
    project,    \* client: project_id argument
    rid,        \* client: topic_id / subscription_id argument
    policy,     \* client: the local variable `policy`
    allowed,    \* client: the local variable `allowed_permissions`
    err,        \* client: the exception the invocation ended with, or OK
    session,    \* client: "none", "open" or "closed" client object
    nreq,       \* history: requests this invocation has issued
    reply,      \* history: error field of the last reply the service gave it
    base,       \* history: bindings its get_iam_policy returned
    submitted,  \* history: bindings its set_iam_policy request carried
    requested,  \* history: permissions its test_iam_permissions request carried
    seen,       \* history: writes applied to its resource when its get was served
    nsets,      \* history: resource path -> number of writes applied
    stale,      \* history: resource path -> a write based on an outdated read was applied
    initial,    \* history: the store before the first invocation
    started     \* history: invocations started so far

vars == <<store, held, pc, op, kind, project, rid, policy, allowed, err, session,
          nreq, reply, base, submitted, requested, seen, nsets, stale, initial, started>>

PathOf(p) == resource_path(kind[p], project[p], rid[p])

----------------------------------------------------------------------------
(* The code of the six functions.                                          *)

\* A bindings.add that replaces an entry of the same role instead of appending.
bindings_add_merging(bindings, role, members) ==
    IF \E i \in DOMAIN bindings : bindings[i].role = role
    THEN [i \in DOMAIN bindings |->
            IF bindings[i].role = role THEN Binding(role, members) ELSE bindings[i]]
    ELSE Append(bindings, Binding(role, members))

\* policy.bindings.add(role=..., members=...): a new entry at the end.
bindings_add(bindings, role, members) == Append(bindings, Binding(role, members))

\* The two functions' bindings exchanged.
BindingsToAdd_exchanged(k) ==
    IF k = "topic"
    THEN <<ViewerBinding, EditorBinding>>
    ELSE <<ViewerBinding, PublisherBinding>>

\* The bindings a set-policy operation adds, in the order it adds them.
BindingsToAdd(k) ==
    IF k = "topic"
    THEN <<ViewerBinding, PublisherBinding>>
    ELSE <<ViewerBinding, EditorBinding>>

\* Adding only the bindings the policy does not hold yet.
AddBindings_deduplicating(k, bindings) ==
    LET adds == BindingsToAdd(k)
        held_already(b) == \E i \in DOMAIN bindings : bindings[i] = b
        one == IF held_already(adds[1]) THEN bindings ELSE Append(bindings, adds[1])
    IN  IF held_already(adds[2]) THEN one ELSE Append(one, adds[2])

\* The two policy.bindings.add calls of a set-policy operation.
AddBindings(k, bindings) ==
    LET adds == BindingsToAdd(k)
        one == bindings_add(bindings, adds[1].role, adds[1].members)
    IN  bindings_add(one, adds[2].role, adds[2].members)

\* A request that carries the added bindings without the fetched ones.
RequestPolicy_additions_only(k, bindings) == AddBindings(k, <<>>)

\* The policy a set-policy operation puts in its set_iam_policy request.
RequestPolicy(k, bindings) == AddBindings(k, bindings)

\* The two functions' permission lists exchanged.
permissions_to_check_exchanged(k) ==
    IF k = "topic"
    THEN <<"pubsub.subscriptions.consume", "pubsub.subscriptions.update">>
    ELSE <<"pubsub.topics.publish", "pubsub.topics.update">>

\* permissions_to_check
permissions_to_check(k) ==
    IF k = "topic"
    THEN <<"pubsub.topics.publish", "pubsub.topics.update">>
    ELSE <<"pubsub.subscriptions.consume", "pubsub.subscriptions.update">>

\* The first request of an operation.
FirstCall(o) == IF o = "check" THEN "test_iam_permissions" ELSE "get_iam_policy"

\* Every operation that fetched a policy going on to write it back.
AfterGet_always_set(o) == "set_iam_policy"

\* Where an operation goes after a successful get_iam_policy.
AfterGet(o) == IF o = "set" THEN "set_iam_policy" ELSE "done"

\* An error reply swallowed: the function goes on as after a normal reply.
OnReply_swallowing(error, next) == [pc |-> next, err |-> OK]

\* No function catches an exception: an error reply ends the invocation with
\* that error, a normal reply lets it go on to `next`.
OnReply(error, next) ==
    IF error = OK THEN [pc |-> next, err |-> OK] ELSE [pc |-> "raised", err |-> error]

\* The session state an invocation that ran to its last statement leaves: only
\* the subscription functions call client.close().
SessionAtReturn(k) == IF k = "subscription" THEN "closed" ELSE "open"

\* The session state after a reply: an exception skips the rest of the function.
SessionAfter(k, position) == IF position = "done" THEN SessionAtReturn(k) ELSE "open"

----------------------------------------------------------------------------
(* The service, as the calls use it.                                       *)

ErrorReply(e) == [err |-> e, policy |-> <<>>, permissions |-> <<>>]

\* Replies the service may give to get_iam_policy(resource).
get_iam_policy(resource) ==
    (IF resource \in DOMAIN store
     THEN {[err |-> OK, policy |-> store[resource], permissions |-> <<>>]}
     ELSE {ErrorReply("NotFoundError")})
    \cup {ErrorReply(e) : e \in {"PermissionDeniedError", "UnavailableError"}}

\* Replies the service may give to set_iam_policy(resource, policy): it stores
\* the submitted policy and echoes it, or fails and stores nothing.
set_iam_policy(resource, bindings) ==
    (IF resource \in DOMAIN store
     THEN {[err |-> OK, policy |-> bindings, permissions |-> <<>>]}
     ELSE {ErrorReply("NotFoundError")})
    \cup {ErrorReply(e) : e \in {"PermissionDeniedError", "UnavailableError", "AbortedError"}}

\* Replies the service may give to test_iam_permissions(resource, permissions):
\* the requested permissions the caller holds, in the order requested.
test_iam_permissions(resource, permissions) ==
    (IF resource \in DOMAIN store
     THEN {[err |-> OK, policy |-> <<>>,
            permissions |-> SelectSeq(permissions, LAMBDA x : x \in held)]}
     ELSE {ErrorReply("NotFoundError")})
    \cup {ErrorReply("UnavailableError")}

----------------------------------------------------------------------------

Init ==
    /\ store \in InitialStores
    /\ held \in HeldChoices
    /\ initial = store
    /\ pc = [p \in Clients |-> "idle"]
    /\ op = [p \in Clients |-> "get"]
    /\ kind = [p \in Clients |-> "topic"]
    /\ project = [p \in Clients |-> "proj-1"]
    /\ rid = [p \in Clients |-> "topic-a"]
    /\ policy = [p \in Clients |-> <<>>]
    /\ allowed = [p \in Clients |-> <<>>]
    /\ err = [p \in Clients |-> OK]
    /\ session = [p \in Clients |-> "none"]
    /\ nreq = [p \in Clients |-> 0]
    /\ reply = [p \in Clients |-> OK]
    /\ base = [p \in Clients |-> <<>>]
    /\ submitted = [p \in Clients |-> <<>>]
    /\ requested = [p \in Clients |-> <<>>]
    /\ seen = [p \in Clients |-> 0]
    /\ nsets = [r \in ExistingResources |-> 0]
    /\ stale = [r \in ExistingResources |-> FALSE]
    /\ started = 0

\* A client starts one of the six functions: the client object is built and the
\* resource path computed; the locals of an earlier invocation are gone.
Invoke(p, o, k, project_id, id) ==
    /\ pc[p] \in {"idle", "done", "raised"}
    /\ started < MaxInvocations
    /\ started' = started + 1
    /\ op' = [op EXCEPT ![p] = o]
    /\ kind' = [kind EXCEPT ![p] = k]
    /\ project' = [project EXCEPT ![p] = project_id]
    /\ rid' = [rid EXCEPT ![p] = id]
    /\ pc' = [pc EXCEPT ![p] = FirstCall(o)]
    /\ session' = [session EXCEPT ![p] = "open"]
    /\ policy' = [policy EXCEPT ![p] = <<>>]
    /\ allowed' = [allowed EXCEPT ![p] = <<>>]
    /\ err' = [err EXCEPT ![p] = OK]
    /\ nreq' = [nreq EXCEPT ![p] = 0]
    /\ reply' = [reply EXCEPT ![p] = OK]
    /\ base' = [base EXCEPT ![p] = <<>>]
    /\ submitted' = [submitted EXCEPT ![p] = <<>>]
    /\ requested' = [requested EXCEPT ![p] = <<>>]
    /\ seen' = [seen EXCEPT ![p] = 0]
    /\ UNCHANGED <<store, held, nsets, stale, initial>>

\* policy = client.get_iam_policy(request={"resource": path}), and for a
\* get-policy operation the printing (and close) that follow it.
GetIamPolicy(p) ==
    /\ pc[p] = "get_iam_policy"
    /\ \E r \in get_iam_policy(PathOf(p)) :
         LET next == OnReply(r.err, AfterGet(op[p])) IN
         /\ pc' = [pc EXCEPT ![p] = next.pc]
         /\ err' = [err EXCEPT ![p] = next.err]
         /\ reply' = [reply EXCEPT ![p] = r.err]
         /\ policy' = [policy EXCEPT ![p] = IF r.err = OK THEN r.policy ELSE @]
         /\ base' = [base EXCEPT ![p] = IF r.err = OK THEN r.policy ELSE @]
         /\ seen' = [seen EXCEPT ![p] = IF r.err = OK THEN nsets[PathOf(p)] ELSE @]
         /\ session' = [session EXCEPT ![p] = SessionAfter(kind[p], next.pc)]
    /\ nreq' = [nreq EXCEPT ![p] = @ + 1]
    /\ UNCHANGED <<store, held, op, kind, project, rid, allowed, submitted, requested,
                   nsets, stale, initial, started>>

\* The two bindings.add calls, policy = client.set_iam_policy(request={"resource":
\* path, "policy": policy}), and the printing (and close) that follow it.
SetIamPolicy(p) ==
    /\ pc[p] = "set_iam_policy"
    /\ LET path == PathOf(p)
           sent == RequestPolicy(kind[p], policy[p])
       IN  \E r \in set_iam_policy(path, sent) :
             LET next == OnReply(r.err, "done") IN
             /\ pc' = [pc EXCEPT ![p] = next.pc]
             /\ err' = [err EXCEPT ![p] = next.err]
             /\ reply' = [reply EXCEPT ![p] = r.err]
             /\ submitted' = [submitted EXCEPT ![p] = sent]
             /\ policy' = [policy EXCEPT ![p] = IF r.err = OK THEN r.policy ELSE sent]
             /\ session' = [session EXCEPT ![p] = SessionAfter(kind[p], next.pc)]
             /\ IF r.err = OK
                THEN /\ store' = [store EXCEPT ![path] = sent]
                     /\ nsets' = [nsets EXCEPT ![path] = @ + 1]
                     /\ stale' = [stale EXCEPT ![path] = @ \/ nsets[path] > seen[p]]
                ELSE UNCHANGED <<store, nsets, stale>>
    /\ nreq' = [nreq EXCEPT ![p] = @ + 1]
    /\ UNCHANGED <<held, op, kind, project, rid, allowed, base, requested, seen,
                   initial, started>>

\* allowed_permissions = client.test_iam_permissions(request={"resource": path,
\* "permissions": permissions_to_check}), and the printing (and close) after it.
TestIamPermissions(p) ==
    /\ pc[p] = "test_iam_permissions"
    /\ LET asked == permissions_to_check(kind[p]) IN
       \E r \in test_iam_permissions(PathOf(p), asked) :
         LET next == OnReply(r.err, "done") IN
         /\ pc' = [pc EXCEPT ![p] = next.pc]
         /\ err' = [err EXCEPT ![p] = next.err]
         /\ reply' = [reply EXCEPT ![p] = r.err]
         /\ requested' = [requested EXCEPT ![p] = asked]
         /\ allowed' = [allowed EXCEPT ![p] = IF r.err = OK THEN r.permissions ELSE @]
         /\ session' = [session EXCEPT ![p] = SessionAfter(kind[p], next.pc)]
    /\ nreq' = [nreq EXCEPT ![p] = @ + 1]
    /\ UNCHANGED <<store, held, op, kind, project, rid, policy, base, submitted, seen,
                   nsets, stale, initial, started>>

Next ==
    \/ \E p \in Clients, o \in Ops, k \in Kinds, project_id \in Projects, id \in ResourceIds :
         Invoke(p, o, k, project_id, id)
    \/ \E p \in Clients : GetIamPolicy(p)
    \/ \E p \in Clients : SetIamPolicy(p)
    \/ \E p \in Clients : TestIamPermissions(p)

Spec == Init /\ [][Next]_vars

----------------------------------------------------------------------------
(* Properties.                                                             *)

\* The multiset of the entries of a sequence.
BagOf(s) ==
    [x \in {s[i] : i \in DOMAIN s} |-> Cardinality({i \in DOMAIN s : s[i] = x})]

\* Number of entries of s equal to x.
CountOf(x, s) == Cardinality({i \in DOMAIN s : s[i] = x})

Viewer == [role |-> "roles/pubsub.viewer", members |-> <<"domain:google.com">>]

Publisher == [role |-> "roles/pubsub.publisher", members |-> <<"group:cloud-logs@google.com">>]

Editor == [role |-> "roles/editor", members |-> <<"group:cloud-logs@google.com">>]

\* The bindings the set-policy function of a kind adds (iam.py:84-89, 113-116).
Added(k) == IF k = "topic" THEN <<Viewer, Publisher>> ELSE <<Viewer, Editor>>

TopicA == "projects/proj-1/topics/topic-a"

SubA == "projects/proj-1/subscriptions/sub-a"

\* The resource identifier of an invocation, written out.
Target(p) ==
    IF kind[p] = "topic"
    THEN "projects/" \o project[p] \o "/topics/" \o rid[p]
    ELSE "projects/" \o project[p] \o "/subscriptions/" \o rid[p]

Ended(p) == pc[p] \in {"done", "raised"}

\* The invocation of p has issued its set_iam_policy request.
HasSubmitted(p) == op[p] = "set" /\ nreq[p] = 2

\* C1: the policy a set-policy operation submits is, as a multiset, the bindings
\* its own get_iam_policy returned plus the bindings it adds; an added binding
\* is a new entry even when an equal binding is already there.
C1_SubmittedIsBasePlusAdded ==
    \A p \in Clients :
        HasSubmitted(p) =>
            /\ BagOf(submitted[p]) = BagOf(base[p]) (+) BagOf(Added(kind[p]))
            /\ Len(submitted[p]) = Len(base[p]) + 2
            /\ \A i \in DOMAIN base[p] : submitted[p][i] = base[p][i]

\* C1 witness: a submitted policy with the viewer binding twice, once from the
\* fetched policy and once added.
C1_Witness ==
    \E p \in Clients :
        /\ HasSubmitted(p)
        /\ base[p] = <<Viewer>>
        /\ CountOf(Viewer, submitted[p]) = 2

\* p and q ran set-policy on the same resource, both fetched before either
\* wrote, both writes were applied, and nothing was written after them.
BothReadThenBothWrote(p, q) ==
    /\ p # q
    /\ op[p] = "set" /\ op[q] = "set"
    /\ pc[p] = "done" /\ pc[q] = "done"
    /\ Target(p) = Target(q)
    /\ Target(p) \in DOMAIN store
    /\ seen[p] = seen[q]
    /\ nsets[Target(p)] = seen[p] + 2

\* The stored policy has fewer copies of some binding than `written` had.
Lacks(stored, written) ==
    \E i \in DOMAIN written : CountOf(written[i], stored) < CountOf(written[i], written)

C3_Scenario(p) ==
    /\ HasSubmitted(p)
    /\ kind[p] = "topic" /\ project[p] = "proj-1" /\ rid[p] = "topic-a"
    /\ base[p] = <<>>

\* C3 as stated: in the scenario the submitted policy consists of the viewer
\* binding and no other.
C3_SubmitsViewerOnly ==
    \A p \in Clients : C3_Scenario(p) => submitted[p] = <<Viewer>>

\* C3 amended: in the scenario the submitted policy consists of exactly two
\* bindings, the viewer binding followed by the publisher binding.
C3_SubmitsViewerAndPublisher ==
    \A p \in Clients : C3_Scenario(p) => submitted[p] = <<Viewer, Publisher>>

\* C3 witness: the scenario happened.
C3_Witness == \E p \in Clients : C3_Scenario(p)

\* C4 as stated: every invocation issues exactly one service request.
C4_SingleRequest ==
    \A p \in Clients : (nreq[p] <= 1) /\ (Ended(p) => nreq[p] = 1)

\* C4 amended: a get-policy or check-permissions invocation issues exactly one
\* request; a set-policy invocation issues get_iam_policy and then, if that
\* succeeded, set_iam_policy, waits between the two in a state where other
\* requests are served, and ends in error after one or after two requests.
C4_OneOrTwoRequests ==
    \A p \in Clients :
        /\ op[p] # "set" => (nreq[p] <= 1 /\ (Ended(p) => nreq[p] = 1))
        /\ op[p] = "set" =>
            /\ nreq[p] <= 2
            /\ pc[p] = "set_iam_policy" => nreq[p] = 1 /\ reply[p] = OK
            /\ pc[p] = "done" => nreq[p] = 2
            /\ pc[p] = "raised" => nreq[p] \in {1, 2}
        /\ pc[p] \in {"get_iam_policy", "test_iam_permissions"} => nreq[p] = 0

\* C4 witness: a set-policy invocation whose get succeeded and whose set
\* failed, another client's write having been served between the two.
C4_Witness ==
    \E p \in Clients :
        /\ op[p] = "set" /\ pc[p] = "raised" /\ nreq[p] = 2
        /\ Target(p) \in DOMAIN store
        /\ nsets[Target(p)] > seen[p]

\* C5: an invocation that has ended has closed its client session.
C5_SessionReleased ==
    \A p \in Clients : Ended(p) => session[p] = "closed"

\* C6: an error reply ends the invocation with that error and without a
\* further request; a normal end follows a normal reply only; a set-policy
\* invocation whose get failed has submitted nothing; an operation on a
\* resource that does not exist never ends normally, and ends with
\* NotFoundError unless the service denied or could not serve the request.
C6_ErrorsPropagate ==
    \A p \in Clients :
        /\ reply[p] # OK => pc[p] = "raised"
        /\ pc[p] = "raised" =>
            /\ reply[p] \in {"NotFoundError", "PermissionDeniedError",
                             "UnavailableError", "AbortedError"}
            /\ err[p] = reply[p]
            /\ nreq[p] \in {1, 2}
            /\ nreq[p] = 2 => (op[p] = "set" /\ submitted[p] # <<>>)
        /\ (pc[p] = "raised" /\ op[p] = "set" /\ nreq[p] = 1) => submitted[p] = <<>>
        /\ pc[p] = "done" => err[p] = OK /\ reply[p] = OK
        /\ (Ended(p) /\ Target(p) \notin {TopicA, SubA}) =>
            /\ pc[p] = "raised"
            /\ nreq[p] = 1
            /\ policy[p] = <<>>
            /\ err[p] \notin {"PermissionDeniedError", "UnavailableError"}
                   => err[p] = "NotFoundError"

\* C6 witness: a set-policy on a resource that does not exist ended with
\* NotFoundError after its get_iam_policy.
C6_Witness ==
    \E p \in Clients :
        /\ op[p] = "set" /\ pc[p] = "raised" /\ err[p] = "NotFoundError"
        /\ Target(p) \notin {TopicA, SubA}
        /\ nreq[p] = 1

\* The permissions a check-permissions function of a kind asks for.
Asked(k) ==
    IF k = "topic"
    THEN <<"pubsub.topics.publish", "pubsub.topics.update">>
    ELSE <<"pubsub.subscriptions.consume", "pubsub.subscriptions.update">>

\* C7: a check-permissions operation asks for the fixed list of its kind and
\* reports what the service answers: the requested permissions the caller
\* holds, a subset of the list, empty when none is held.
C7_ReportsGrantedSubset ==
    \A p \in Clients :
        (op[p] = "check" /\ nreq[p] = 1) =>
            /\ requested[p] = Asked(kind[p])
            /\ reply[p] = OK =>
                /\ pc[p] = "done"
                /\ allowed[p] = SelectSeq(Asked(kind[p]), LAMBDA x : x \in held)
                /\ \A i \in DOMAIN allowed[p] : \E j \in DOMAIN Asked(kind[p]) :
                       allowed[p][i] = Asked(kind[p])[j]
                /\ (\A j \in DOMAIN Asked(kind[p]) : Asked(kind[p])[j] \notin held)
                       => allowed[p] = <<>>
                /\ (kind[p] = "topic" /\ held = {"pubsub.topics.publish"})
                       => allowed[p] = <<"pubsub.topics.publish">>

\* C7 witness: a caller holding only publish rights checked a topic.
C7_Witness ==
    \E p \in Clients :
        /\ op[p] = "check" /\ kind[p] = "topic" /\ pc[p] = "done"
        /\ held = {"pubsub.topics.publish"}
        /\ allowed[p] = <<"pubsub.topics.publish">>

\* n copies of the sequence s, one after the other.
RECURSIVE Copies(_, _)
Copies(s, n) == IF n = 0 THEN <<>> ELSE s \o Copies(s, n - 1)

\* The bindings a set-policy adds to a resource.
AddedTo(r) == IF r = TopicA THEN Added("topic") ELSE Added("subscription")

\* C9: a set_iam_policy request follows a get_iam_policy of the same invocation
\* on the same resource, whose result is the base of what is submitted; a
\* get-policy prints what its own get_iam_policy returned; and as long as no
\* write was based on an outdated read, the stored policy is the initial one
\* followed by one copy of the added bindings per write.
C9_FetchedFreshEachInvocation ==
    /\ \A p \in Clients :
        /\ pc[p] = "set_iam_policy" =>
            (nreq[p] = 1 /\ policy[p] = base[p] /\ seen[p] <= nsets[Target(p)])
        /\ HasSubmitted(p) => SubSeq(submitted[p], 1, Len(base[p])) = base[p]
        /\ (op[p] = "get" /\ pc[p] = "done") => (nreq[p] = 1 /\ policy[p] = base[p])
    /\ \A r \in DOMAIN store :
        ~stale[r] => store[r] = initial[r] \o Copies(AddedTo(r), nsets[r])

\* C9 witness: two set-policy invocations wrote one resource one after the
\* other.
C9_Witness ==
    \E r \in DOMAIN store :
        /\ ~stale[r]
        /\ nsets[r] = 2
        /\ Len(store[r]) = Len(initial[r]) + 4

\* C10: a stored policy changes only in the step that serves the
\* set_iam_policy request of a set-policy invocation, and only the policy
\* of the resource that invocation names; the set of resources never changes.
C10_OnlySetPolicyChangesItsResource ==
    [][/\ DOMAIN store' = DOMAIN store
       /\ \A r \in DOMAIN store :
            store'[r] # store[r] =>
                \E p \in Clients :
                    /\ op[p] = "set"
                    /\ pc[p] = "set_iam_policy" /\ pc'[p] = "done"
                    /\ r = Target(p)
                    /\ \A r2 \in DOMAIN store \ {r} : store'[r2] = store[r2]]_vars

\* C10 witness: the topic was written and the subscription holds its initial
\* policy, after a get-policy and a set-policy.
C10_Witness ==
    /\ nsets[TopicA] = 1
    /\ store[TopicA] # initial[TopicA]
    /\ store[SubA] = initial[SubA]
    /\ \E p \in Clients : op[p] = "get" /\ pc[p] = "done"

====
